---- MODULE Spec2Model ----
(***************************************************************************)
(* Model of the vault server (backend request handler) of the secret       *)
(* vault: the backing file data/vault.json, the /api/secrets request       *)
(* handler with its suspension point (await readRequestBody) between the   *)
(* snapshot read and the write, validateSecret and buildSecret.            *)
(*                                                                         *)
(* Node runs one handler at a time until it awaits: a handler is therefore *)
(* one atomic step from its start to its response (GET, DELETE, 404), or   *)
(* two steps (POST, PUT): the start, which reads the vault, and the        *)
(* continuation after the body has arrived, which validates, builds,       *)
(* writes and responds.                                                    *)
(***************************************************************************)
EXTENDS Integers, Sequences, FiniteSets, TLC

(* ---------------------------- bounds ---------------------------------- *)
\* number of requests the clients send, numbered in order of arrival
MaxReq == 2
\* number of UUIDs crypto.randomUUID can hand out
MaxIds == 2
\* last reading of the millisecond clock (it starts at 1)
MaxClock == 2

Req == 1..MaxReq
Ids == 1..MaxIds
\* the id of a path /api/secrets/<id> no record ever has
UnknownId == MaxIds + 1
\* existing.id / existing.createdAt of the default existing = {} (undefined)
NoId == 0
NoTime == 0

(* ----------------------------- state ---------------------------------- *)
VARIABLES
    disk,       \* the contents of data/vault.json
    clock,      \* the reading of the millisecond clock (new Date())
    issued,     \* the values crypto.randomUUID() has returned
    pc,         \* where each request's handler is
    snap,       \* vault.secrets of a handler suspended in readRequestBody
    idx,        \* secretIndex of a suspended PUT handler (1-based)
    last,       \* the response sent last, with what its handler read and did
    resp,       \* what each request was answered with, and the operation done
    born,       \* the createdAt each id was created with
    lastWrite,  \* the change the latest successful create/update/delete made
    store,      \* a caller of readVault / writeVault alone: what it holds
    ui          \* the browser application: its form and what it has sent

vars == <<disk, clock, issued, pc, snap, idx, last, resp, born, lastWrite,
          store, ui>>

(* ------------------------- JSON values -------------------------------- *)
\* a JSON value as typeof / Array.isArray / === null see it
Undefined == [t |-> "undefined", v |-> ""]
Null == [t |-> "null", v |-> ""]
Str(s) == [t |-> "string", v |-> s]
Num(s) == [t |-> "number", v |-> s]
Arr(s) == [t |-> "array", v |-> s]
Obj(s) == [t |-> "object", v |-> s]

\* JavaScript truthiness of a value (!x is ~Truthy(x))
Truthy(x) ==
    CASE x.t = "undefined" -> FALSE
      [] x.t = "null" -> FALSE
      [] x.t = "string" -> x.v # ""
      [] x.t = "number" -> x.v # "0"
      [] OTHER -> TRUE

\* typeof x (null and arrays are "object")
TypeOf(x) ==
    CASE x.t \in {"null", "array", "object"} -> "object"
      [] OTHER -> x.t

ALLOWED_TYPES == {"credential", "sshKey", "creditCard", "misc"}

\* ALLOWED_TYPES.has(x): SameValueZero, only the four strings are members
AllowedHas(x) == x.t = "string" /\ x.v \in ALLOWED_TYPES

(* --------------------------- inputs ----------------------------------- *)
\* per field: absent, a value the rule accepts, one it rejects
TypeInputs == {Undefined, Str("credential"), Str("bogus")}
NameInputs == {Undefined, Str("A"), Str("")}
DetailsInputs == {Undefined, Obj("d1"), Arr("[]")}
\* a key an update payload may carry besides type, name, details
Forged == Str("forged")

\* what readRequestBody yields: kind "object" is a parsed JSON object (an
\* empty body is {}), "null" the JSON text null, "malformed" a rejection
NoFields ==
    [type |-> Undefined, name |-> Undefined, details |-> Undefined,
     id |-> Undefined, createdAt |-> Undefined]
EmptyBody == [kind |-> "object"] @@ NoFields
PlainBodies ==
    [kind : {"object"}, type : TypeInputs, name : NameInputs,
     details : DetailsInputs, id : {Undefined}, createdAt : {Undefined}]
ValidBody ==
    [kind |-> "object", type |-> Str("credential"), name |-> Str("A"),
     details |-> Obj("d1"), id |-> Undefined, createdAt |-> Undefined]
\* a second accepted value for one field alone, the other values each rule
\* rejects in an otherwise valid payload, and payloads with id and createdAt
OddBodies ==
    {[EmptyBody EXCEPT !.type = Str("misc")], [EmptyBody EXCEPT !.name = Str("B")],
     [EmptyBody EXCEPT !.details = Obj("d2")],
     [ValidBody EXCEPT !.type = Null], [ValidBody EXCEPT !.type = Str("")],
     [ValidBody EXCEPT !.name = Null], [ValidBody EXCEPT !.name = Num("7")],
     [ValidBody EXCEPT !.details = Null], [ValidBody EXCEPT !.details = Str("x")],
     [ValidBody EXCEPT !.details = Num("7")],
     [ValidBody EXCEPT !.id = Forged, !.createdAt = Forged],
     [EmptyBody EXCEPT !.id = Forged, !.createdAt = Forged]}
ObjectBodies == PlainBodies \cup OddBodies
NullBody == [kind |-> "null"] @@ NoFields
MalformedBody == [kind |-> "malformed"] @@ NoFields
Bodies == ObjectBodies \cup {NullBody, MalformedBody}

(* ------------------------ pure functions ------------------------------ *)
TypeError == "\"type\" must be one of: credential, sshKey, creditCard, misc"
NameError == "\"name\" is required"
DetailsError == "\"details\" must be an object"

\* validateSecret returning at the first error instead of collecting all
ValidateSecretFirstOnly(body, isUpdate) ==
    IF (~isUpdate \/ body.type # Undefined)
       /\ (~Truthy(body.type) \/ ~AllowedHas(body.type))
    THEN <<TypeError>>
    ELSE IF (~isUpdate \/ body.name # Undefined)
            /\ (~Truthy(body.name) \/ TypeOf(body.name) # "string")
    THEN <<NameError>>
    ELSE IF (~isUpdate \/ body.details # Undefined)
            /\ (TypeOf(body.details) # "object" \/ body.details.t = "array"
                \/ body.details = Null)
    THEN <<DetailsError>>
    ELSE <<>>

\* validateSecret ignoring isUpdate: every field required on update too
ValidateSecretAsCreate(body, isUpdate) ==
    (IF ~Truthy(body.type) \/ ~AllowedHas(body.type)
        THEN <<TypeError>> ELSE <<>>)
    \o (IF ~Truthy(body.name) \/ TypeOf(body.name) # "string"
         THEN <<NameError>> ELSE <<>>)
    \o (IF TypeOf(body.details) # "object" \/ body.details.t = "array"
            \/ body.details = Null
         THEN <<DetailsError>> ELSE <<>>)

\* validateSecret(body, isUpdate): the errors, in the order they are pushed
ValidateSecret(body, isUpdate) ==
    (IF (~isUpdate \/ body.type # Undefined)
           /\ (~Truthy(body.type) \/ ~AllowedHas(body.type))
        THEN <<TypeError>> ELSE <<>>)
    \o (IF (~isUpdate \/ body.name # Undefined)
            /\ (~Truthy(body.name) \/ TypeOf(body.name) # "string")
         THEN <<NameError>> ELSE <<>>)
    \o (IF (~isUpdate \/ body.details # Undefined)
            /\ (TypeOf(body.details) # "object" \/ body.details.t = "array"
                \/ body.details = Null)
         THEN <<DetailsError>> ELSE <<>>)

\* the default argument existing = {} of buildSecret
NoExisting ==
    [id |-> NoId, type |-> Undefined, name |-> Undefined, details |-> Undefined,
     createdAt |-> NoTime, updatedAt |-> NoTime]

\* an id generator that may return a value again
RandomUUIDsRepeating(iss) == Ids

\* the values crypto.randomUUID() may return: a random 122-bit value, taken
\* never to repeat one it returned before (issued)
RandomUUIDs(iss) == Ids \ iss

\* buildSecret taking type, name and details from the body alone
BuildSecretNoMerge(body, existing, now, uuid) ==
    [id |-> IF existing.id # NoId THEN existing.id ELSE uuid,
     type |-> body.type,
     name |-> body.name,
     details |-> body.details,
     createdAt |-> IF existing.createdAt # NoTime THEN existing.createdAt ELSE now,
     updatedAt |-> now]

\* buildSecret stamping createdAt on every call
BuildSecretRestamp(body, existing, now, uuid) ==
    [id |-> IF existing.id # NoId THEN existing.id ELSE uuid,
     type |-> IF body.type # Undefined THEN body.type ELSE existing.type,
     name |-> IF body.name # Undefined THEN body.name ELSE existing.name,
     details |-> IF body.details # Undefined THEN body.details ELSE existing.details,
     createdAt |-> now,
     updatedAt |-> now]

\* buildSecret keeping the updatedAt of the existing record
BuildSecretKeepUpdatedAt(body, existing, now, uuid) ==
    [id |-> IF existing.id # NoId THEN existing.id ELSE uuid,
     type |-> IF body.type # Undefined THEN body.type ELSE existing.type,
     name |-> IF body.name # Undefined THEN body.name ELSE existing.name,
     details |-> IF body.details # Undefined THEN body.details ELSE existing.details,
     createdAt |-> IF existing.createdAt # NoTime THEN existing.createdAt ELSE now,
     updatedAt |-> IF existing.updatedAt # NoTime THEN existing.updatedAt ELSE now]

\* buildSecret without the "|| now" of createdAt
BuildSecretNoCreatedAt(body, existing, now, uuid) ==
    [id |-> IF existing.id # NoId THEN existing.id ELSE uuid,
     type |-> IF body.type # Undefined THEN body.type ELSE existing.type,
     name |-> IF body.name # Undefined THEN body.name ELSE existing.name,
     details |-> IF body.details # Undefined THEN body.details ELSE existing.details,
     createdAt |-> existing.createdAt,
     updatedAt |-> now]

\* buildSecret(body, existing) run at clock reading now, with uuid the value
\* crypto.randomUUID() would return
BuildSecret(body, existing, now, uuid) ==
    [id |-> IF existing.id # NoId THEN existing.id ELSE uuid,
     type |-> IF body.type # Undefined THEN body.type ELSE existing.type,
     name |-> IF body.name # Undefined THEN body.name ELSE existing.name,
     details |-> IF body.details # Undefined THEN body.details ELSE existing.details,
     createdAt |-> IF existing.createdAt # NoTime THEN existing.createdAt ELSE now,
     updatedAt |-> now]

(* --------------------------- the file --------------------------------- *)
\* data/vault.json: absent, text JSON.parse rejects ("garbage"), a document
\* { "secrets": [...] } ("json"), or JSON text of another shape, such as {}
\* or [], which has no secrets array ("other"). A file is modelled by the
\* value JSON.parse gives for it: JSON.stringify leaves out the properties
\* that are undefined, and JSON.parse gives undefined for a property left out
EmptyVault == [kind |-> "json", secrets |-> <<>>]
MissingFile == [kind |-> "missing", secrets |-> <<>>]
GarbageFile == [kind |-> "garbage", secrets |-> <<>>]
OtherFile == [kind |-> "other", secrets |-> <<>>]

\* ensureDataFile(): the file afterwards
EnsureDataFile(d) == IF d.kind = "missing" THEN EmptyVault ELSE d

\* readVault answering from a vault loaded once, when the server started
ReadVaultCached(d) ==
    [vault |-> <<>>, file |-> EnsureDataFile(d), doc |-> EmptyVault]

\* readVault(): the value returned (doc), its secrets (vault) and the file
\* afterwards; only a JSON.parse that throws resets the file
ReadVault(d) ==
    LET e == EnsureDataFile(d)
    IN  IF e.kind = "garbage"
        THEN [vault |-> <<>>, file |-> EmptyVault, doc |-> EmptyVault]
        ELSE [vault |-> e.secrets, file |-> e, doc |-> e]

\* writeVault writing vault.secrets in place of vault: a top-level array
WriteDocBare(doc) == OtherFile

\* writeVault(vault) of a value readVault returned: the file afterwards
WriteDoc(doc) == doc

\* writeVault keeping the records of the file the vault written does not have
WriteVaultMerged(secrets) ==
    LET Kept(x) == \A i \in 1..Len(secrets) : secrets[i].id # x.id
    IN  [kind |-> "json", secrets |-> SelectSeq(disk.secrets, Kept) \o secrets]

\* writeVault(vault) of a handler, vault.secrets being secrets
WriteVault(secrets) == WriteDoc([kind |-> "json", secrets |-> secrets])

\* findIndex whose -1 is used as an index: the last element
FindIndexLast(secrets, secretId) ==
    IF \E i \in 1..Len(secrets) : secrets[i].id = secretId
    THEN CHOOSE i \in 1..Len(secrets) :
            /\ secrets[i].id = secretId
            /\ \A j \in 1..(i - 1) : secrets[j].id # secretId
    ELSE Len(secrets)

\* vault.secrets.findIndex(secret => secret.id === secretId), 0 for -1
FindIndex(secrets, secretId) ==
    IF \E i \in 1..Len(secrets) : secrets[i].id = secretId
    THEN CHOOSE i \in 1..Len(secrets) :
            /\ secrets[i].id = secretId
            /\ \A j \in 1..(i - 1) : secrets[j].id # secretId
    ELSE 0

\* pop() in place of splice(secretIndex, 1): the last element goes
SpliceSwap(secrets, i) ==
    IF i = Len(secrets)
    THEN SubSeq(secrets, 1, Len(secrets) - 1)
    ELSE [SubSeq(secrets, 1, Len(secrets) - 1) EXCEPT ![i] = secrets[Len(secrets)]]

\* splice(i, 1) taking out the last record
SplicePop(secrets, i) == SubSeq(secrets, 1, Len(secrets) - 1)

\* vault.secrets.splice(secretIndex, 1): the array afterwards
Splice(secrets, i) ==
    [j \in 1..(Len(secrets) - 1) |-> IF j < i THEN secrets[j] ELSE secrets[j + 1]]

\* vault.secrets[secretIndex] = updated
AssignAppend(secrets, i, updated) == Append(secrets, updated)

\* vault.secrets[secretIndex] = updated
Assign(secrets, i, updated) == [secrets EXCEPT ![i] = updated]

Range(s) == {s[i] : i \in 1..Len(s)}
IdsOf(s) == {s[i].id : i \in 1..Len(s)}

(* ---------------------------- handlers -------------------------------- *)
\* a path /api/secrets/<id> names an id handed out or one never handed out
Targets == Ids \cup {UnknownId}

\* one response, as sendJson sends it, with the handler's inputs
Response(r, op, target, status, message, errors, rec, list, body, vault, existing) ==
    [req |-> r, op |-> op, target |-> target, status |-> status, message |-> message,
     errors |-> errors, rec |-> rec, list |-> list, body |-> body,
     snap |-> vault, existing |-> existing, pre |-> disk, prior |-> issued,
     now |-> clock]

\* no response yet
NoAnswer == [op |-> "none", status |-> 0, rec |-> NoExisting]

\* readVault / writeVault have no caller besides the request handler
StoreIdle ==
    [phase |-> "idle", read |-> EmptyVault, doc |-> EmptyVault,
     saved |-> EmptyVault]

\* the browser application is not open
UiIdle == [phase |-> "closed"]

Init ==
    /\ disk = EmptyVault
    /\ clock = 1
    /\ issued = {}
    /\ pc = [r \in Req |-> "new"]
    /\ snap = [r \in Req |-> <<>>]
    /\ idx = [r \in Req |-> 0]
    /\ last = [req |-> 0, op |-> "none", target |-> NoId, status |-> 0, message |-> "",
               errors |-> <<>>, rec |-> NoExisting, list |-> <<>>,
               body |-> EmptyBody, snap |-> <<>>, existing |-> NoExisting,
               pre |-> EmptyVault, prior |-> {}, now |-> 1]
    /\ resp = [r \in Req |-> NoAnswer]
    /\ born = [i \in Ids |-> NoTime]
    /\ lastWrite = [op |-> "none", rec |-> NoExisting]
    /\ store = StoreIdle
    /\ ui = UiIdle

\* res.end(...): request r has its response
Answer(r) ==
    resp' = [resp EXCEPT ![r] =
                [op |-> IF last'.status \in {200, 201} THEN last'.op ELSE "none",
                 status |-> last'.status, rec |-> last'.rec]]

\* the process ended with the first 400 or 404 it sent
ArrivesWhileUp(r) ==
    /\ pc[r] = "new"
    /\ \A q \in Req : q < r => pc[q] # "new"
    /\ last.status \notin {400, 404}

\* requests are numbered in the order the server receives them
Arrives(r) == pc[r] = "new" /\ \A q \in Req : q < r => pc[q] # "new"

\* the millisecond clock advances between two steps
Tick ==
    /\ clock < MaxClock
    /\ clock' = clock + 1
    /\ UNCHANGED <<disk, issued, pc, snap, idx, last, resp, born, lastWrite>>
    /\ UNCHANGED <<store, ui>>

\* GET /api/secrets
List(r) ==
    /\ Arrives(r)
    /\ LET rd == ReadVault(disk)
       IN  /\ disk' = rd.file
           /\ last' = Response(r, "list", NoId, 200, "", <<>>, NoExisting,
                                rd.vault, EmptyBody, rd.vault, NoExisting)
    /\ Answer(r)
    /\ pc' = [pc EXCEPT ![r] = "done"]
    /\ UNCHANGED <<clock, issued, snap, idx, born, lastWrite>>
    /\ UNCHANGED <<store, ui>>

\* POST /api/secrets up to await readRequestBody(req)
StartPost(r) ==
    /\ Arrives(r)
    /\ LET rd == ReadVault(disk)
       IN  /\ disk' = rd.file
           /\ snap' = [snap EXCEPT ![r] = rd.vault]
    /\ pc' = [pc EXCEPT ![r] = "post"]
    /\ UNCHANGED <<clock, issued, idx, last, resp, born, lastWrite>>
    /\ UNCHANGED <<store, ui>>

\* the catch block of the POST and PUT handlers: readRequestBody rejected, or
\* validateSecret threw reading a property of null
Caught(r, op, body, existing) ==
    /\ body.kind # "object"
    /\ last' = Response(r, op, existing.id, 400,
                        IF body.kind = "malformed" THEN "Invalid JSON payload"
                        ELSE "Cannot read properties of null",
                        <<>>, NoExisting, <<>>, body, snap[r], existing)
    /\ UNCHANGED <<disk, issued, born, lastWrite>>

\* errors.length: sendJson(res, 400, { message: 'Validation failed', errors })
Rejected(r, op, body, isUpdate, existing) ==
    /\ body.kind = "object"
    /\ ValidateSecret(body, isUpdate) # <<>>
    /\ last' = Response(r, op, existing.id, 400, "Validation failed",
                        ValidateSecret(body, isUpdate), NoExisting, <<>>, body,
                        snap[r], existing)
    /\ UNCHANGED <<disk, issued, born, lastWrite>>

\* POST /api/secrets from the arrival of the body to the response
FinishPost(r) ==
    /\ pc[r] = "post"
    /\ \E body \in Bodies :
        \/ Caught(r, "create", body, NoExisting)
        \/ Rejected(r, "create", body, FALSE, NoExisting)
        \/ /\ body.kind = "object"
           /\ ValidateSecret(body, FALSE) = <<>>
           /\ \E uuid \in RandomUUIDs(issued) :
                LET secret == BuildSecret(body, NoExisting, clock, uuid)
                IN  /\ disk' = WriteVault(Append(snap[r], secret))
                    /\ issued' = issued \cup {uuid}
                    /\ born' = [born EXCEPT ![uuid] = secret.createdAt]
                    /\ last' = Response(r, "create", NoId, 201, "", <<>>, secret,
                                         <<>>, body, snap[r], NoExisting)
                    /\ lastWrite' = [op |-> "create", rec |-> secret]
    /\ Answer(r)
    /\ pc' = [pc EXCEPT ![r] = "done"]
    /\ snap' = [snap EXCEPT ![r] = <<>>]
    /\ UNCHANGED <<clock, idx>>
    /\ UNCHANGED <<store, ui>>

\* the lookup of the id coming after the body: an update of an unknown id
\* with an invalid body is answered with the validation errors
NotFoundAfterBody(r, op, secretId) ==
    /\ Arrives(r)
    /\ LET rd == ReadVault(disk)
       IN  /\ FindIndex(rd.vault, secretId) = 0
           /\ disk' = rd.file
           /\ \E body \in ObjectBodies :
                /\ ValidateSecret(body, TRUE) # <<>>
                /\ last' = IF op = "update"
                           THEN Response(r, op, secretId, 400, "Validation failed",
                                         ValidateSecret(body, TRUE), NoExisting,
                                         <<>>, body, rd.vault, NoExisting)
                           ELSE Response(r, op, secretId, 404, "Not found", <<>>,
                                         NoExisting, <<>>, EmptyBody, rd.vault,
                                         NoExisting)
    /\ Answer(r)
    /\ pc' = [pc EXCEPT ![r] = "done"]
    /\ UNCHANGED <<clock, issued, snap, idx, born, lastWrite>>
    /\ UNCHANGED <<store, ui>>

\* PUT, DELETE or any other method on /api/secrets/<id>, no record has the id
NotFound(r, op, secretId) ==
    /\ Arrives(r)
    /\ LET rd == ReadVault(disk)
       IN  /\ FindIndex(rd.vault, secretId) = 0
           /\ disk' = rd.file
           /\ last' = Response(r, op, secretId, 404, "Not found", <<>>,
                                NoExisting, <<>>, EmptyBody, rd.vault, NoExisting)
    /\ Answer(r)
    /\ pc' = [pc EXCEPT ![r] = "done"]
    /\ UNCHANGED <<clock, issued, snap, idx, born, lastWrite>>
    /\ UNCHANGED <<store, ui>>

\* PUT /api/secrets/<id> up to await readRequestBody(req)
StartPut(r, secretId) ==
    /\ Arrives(r)
    /\ LET rd == ReadVault(disk)
       IN  /\ FindIndex(rd.vault, secretId) # 0
           /\ disk' = rd.file
           /\ snap' = [snap EXCEPT ![r] = rd.vault]
           /\ idx' = [idx EXCEPT ![r] = FindIndex(rd.vault, secretId)]
    /\ pc' = [pc EXCEPT ![r] = "put"]
    /\ UNCHANGED <<clock, issued, last, resp, born, lastWrite>>
    /\ UNCHANGED <<store, ui>>

\* PUT /api/secrets/<id> from the arrival of the body to the response
FinishPut(r) ==
    /\ pc[r] = "put"
    /\ LET existing == snap[r][idx[r]]
       IN  \E body \in Bodies :
            \/ Caught(r, "update", body, existing)
            \/ Rejected(r, "update", body, TRUE, existing)
            \/ /\ body.kind = "object"
               /\ ValidateSecret(body, TRUE) = <<>>
               /\ LET updated == BuildSecret(body, existing, clock, NoId)
                  IN  /\ disk' = WriteVault(Assign(snap[r], idx[r], updated))
                      /\ last' = Response(r, "update", existing.id, 200, "", <<>>,
                                           updated, <<>>, body, snap[r], existing)
                      /\ lastWrite' = [op |-> "update", rec |-> updated]
               /\ UNCHANGED <<issued, born>>
    /\ Answer(r)
    /\ pc' = [pc EXCEPT ![r] = "done"]
    /\ snap' = [snap EXCEPT ![r] = <<>>]
    /\ idx' = [idx EXCEPT ![r] = 0]
    /\ UNCHANGED clock
    /\ UNCHANGED <<store, ui>>

\* DELETE working on the vault the request before it read
DeleteCached(r, secretId) ==
    /\ Arrives(r)
    /\ LET vault == IF last.req = 0 THEN ReadVault(disk).vault ELSE last.snap
           secretIndex == FindIndex(vault, secretId)
       IN  /\ secretIndex # 0
           /\ disk' = WriteVault(Splice(vault, secretIndex))
           /\ last' = Response(r, "delete", secretId, 200, "", <<>>,
                                vault[secretIndex], <<>>, EmptyBody, vault,
                                vault[secretIndex])
           /\ lastWrite' = [op |-> "delete", rec |-> vault[secretIndex]]
    /\ Answer(r)
    /\ pc' = [pc EXCEPT ![r] = "done"]
    /\ UNCHANGED <<clock, issued, snap, idx, born>>
    /\ UNCHANGED <<store, ui>>

\* DELETE /api/secrets/<id>
Delete(r, secretId) ==
    /\ Arrives(r)
    /\ LET rd == ReadVault(disk)
           secretIndex == FindIndex(rd.vault, secretId)
       IN  /\ secretIndex # 0
           /\ disk' = WriteVault(Splice(rd.vault, secretIndex))
           /\ last' = Response(r, "delete", secretId, 200, "", <<>>,
                                rd.vault[secretIndex], <<>>, EmptyBody, rd.vault,
                                rd.vault[secretIndex])
           /\ lastWrite' = [op |-> "delete", rec |-> rd.vault[secretIndex]]
    /\ Answer(r)
    /\ pc' = [pc EXCEPT ![r] = "done"]
    /\ UNCHANGED <<clock, issued, snap, idx, born>>
    /\ UNCHANGED <<store, ui>>

\* a method other than PUT and DELETE on /api/secrets/<id> of a record
Unsupported(r, secretId) ==
    /\ Arrives(r)
    /\ LET rd == ReadVault(disk)
       IN  /\ FindIndex(rd.vault, secretId) # 0
           /\ disk' = rd.file
           /\ last' = Response(r, "other", secretId, 404, "Not found", <<>>,
                                NoExisting, <<>>, EmptyBody, rd.vault, NoExisting)
    /\ Answer(r)
    /\ pc' = [pc EXCEPT ![r] = "done"]
    /\ UNCHANGED <<clock, issued, snap, idx, born, lastWrite>>
    /\ UNCHANGED <<store, ui>>

Next ==
    \/ Tick
    \/ \E r \in Req : List(r)
    \/ \E r \in Req : StartPost(r)
    \/ \E r \in Req : FinishPost(r)
    \/ \E r \in Req, secretId \in Targets, op \in {"update", "delete", "other"} :
            NotFound(r, op, secretId)
    \/ \E r \in Req, secretId \in Targets : StartPut(r, secretId)
    \/ \E r \in Req : FinishPut(r)
    \/ \E r \in Req, secretId \in Targets : Delete(r, secretId)
    \/ \E r \in Req, secretId \in Targets : Unsupported(r, secretId)

Spec == Init /\ [][Next]_vars

(* ------------- the server started on a vault file it finds ------------ *)
\* records an earlier run of the server left in data/vault.json
Seed1 ==
    [id |-> 1, type |-> Str("credential"), name |-> Str("A"),
     details |-> Obj("d1"), createdAt |-> 1, updatedAt |-> 1]
Seed2 ==
    [id |-> 2, type |-> Str("misc"), name |-> Str("B"),
     details |-> Obj("d2"), createdAt |-> 1, updatedAt |-> 1]
\* a record an earlier run of the server left: crypto.randomUUID() does not
\* return its id in this run
Seed3 ==
    [id |-> UnknownId, type |-> Str("sshKey"), name |-> Str("C"),
     details |-> Obj("d1"), createdAt |-> 1, updatedAt |-> 1]
SeedVaults == {<<Seed1>>, <<Seed1, Seed2>>}
LongVaults == {<<Seed1>>, <<Seed1, Seed2, Seed3>>}

\* ensureDataFile() leaves a file that exists as it is
InitFrom(vaults) ==
    /\ \E seed \in vaults :
        /\ disk = WriteVault(seed)
        /\ issued = IdsOf(seed)
        /\ born = [i \in Ids |-> IF i \in IdsOf(seed) THEN 1 ELSE NoTime]
        /\ last = [req |-> 0, op |-> "none", target |-> NoId, status |-> 0,
                   message |-> "", errors |-> <<>>, rec |-> NoExisting,
                   list |-> <<>>, body |-> EmptyBody, snap |-> <<>>,
                   existing |-> NoExisting, pre |-> WriteVault(seed),
                   prior |-> IdsOf(seed), now |-> 1]
    /\ clock = 1
    /\ pc = [r \in Req |-> "new"]
    /\ snap = [r \in Req |-> <<>>]
    /\ idx = [r \in Req |-> 0]
    /\ resp = [r \in Req |-> NoAnswer]
    /\ lastWrite = [op |-> "none", rec |-> NoExisting]
    /\ store = StoreIdle
    /\ ui = UiIdle

InitSeeded == InitFrom(SeedVaults)

\* the requests of such a run, all within one reading of the clock
NextSeeded ==
    \/ \E r \in Req : List(r)
    \/ \E r \in Req : StartPost(r)
    \/ \E r \in Req : FinishPost(r)
    \/ \E r \in Req, secretId \in Targets, op \in {"update", "delete", "other"} :
            NotFound(r, op, secretId)
    \/ \E r \in Req, secretId \in Targets : StartPut(r, secretId)
    \/ \E r \in Req : FinishPut(r)
    \/ \E r \in Req, secretId \in Targets : Delete(r, secretId)
    \/ \E r \in Req, secretId \in Targets : Unsupported(r, secretId)

SpecSeeded == InitSeeded /\ [][NextSeeded]_vars

(* ------------------ every request body arrives ----------------------- *)
\* a client that sent the request line of a POST or a PUT sends the body
\* too: 'end' (or 'error') is emitted on req, and the event loop then runs
\* the handler from its await to its end
SpecFair ==
    /\ Init
    /\ [][NextSeeded]_vars
    /\ \A r \in Req : WF_vars(FinishPost(r)) /\ WF_vars(FinishPut(r))

(* ------------------- requests one after the other -------------------- *)
\* no other request waits for its body when r is handled
Alone(r) == \A q \in Req \ {r} : pc[q] \notin {"post", "put"}

InitSerial == InitFrom(LongVaults)

NextSerial ==
    \/ \E r \in Req : Alone(r) /\ List(r)
    \/ \E r \in Req : Alone(r) /\ StartPost(r)
    \/ \E r \in Req : Alone(r) /\ FinishPost(r)
    \/ \E r \in Req, secretId \in Targets, op \in {"update", "delete", "other"} :
            Alone(r) /\ NotFound(r, op, secretId)
    \/ \E r \in Req, secretId \in Targets : Alone(r) /\ StartPut(r, secretId)
    \/ \E r \in Req : Alone(r) /\ FinishPut(r)
    \/ \E r \in Req, secretId \in Targets : Alone(r) /\ Delete(r, secretId)
    \/ \E r \in Req, secretId \in Targets : Alone(r) /\ Unsupported(r, secretId)

SpecSerial == InitSerial /\ [][NextSerial]_vars

(* --------------------- the file system may fail ----------------------- *)
\* error.message of a file system error (EACCES, EIO, ENOSPC, ...)
IoError == "EIO"

\* the file after a writeFileSync that threw: as it was when the open
\* failed, cut short when the write failed after the open truncated it
AfterFailedWrite(d) == {d, GarbageFile}

\* readVault() at line 151 throws from readFileSync: the call is outside any
\* try, the async handler rejects and nothing is sent on res
ReadFails(r) ==
    /\ Arrives(r)
    /\ last' = Response(r, "read", NoId, 0, IoError, <<>>, NoExisting, <<>>,
                        EmptyBody, <<>>, NoExisting)
    /\ pc' = [pc EXCEPT ![r] = "dead"]
    /\ UNCHANGED <<disk, clock, issued, snap, idx, resp, born, lastWrite>>
    /\ UNCHANGED <<store, ui>>

\* POST: writeVault(vault) throws inside the try, the catch sends 400 with
\* the error's message
PostWriteFails(r) ==
    /\ pc[r] = "post"
    /\ \E body \in ObjectBodies :
        /\ ValidateSecret(body, FALSE) = <<>>
        /\ last' = Response(r, "create", NoId, 400, IoError, <<>>, NoExisting,
                            <<>>, body, snap[r], NoExisting)
    /\ disk' \in AfterFailedWrite(disk)
    /\ Answer(r)
    /\ pc' = [pc EXCEPT ![r] = "done"]
    /\ snap' = [snap EXCEPT ![r] = <<>>]
    /\ UNCHANGED <<clock, issued, idx, born, lastWrite>>
    /\ UNCHANGED <<store, ui>>

\* PUT: writeVault(vault) throws inside the try, the catch sends 400 with
\* the error's message
PutWriteFails(r) ==
    /\ pc[r] = "put"
    /\ \E body \in ObjectBodies :
        /\ ValidateSecret(body, TRUE) = <<>>
        /\ last' = Response(r, "update", snap[r][idx[r]].id, 400, IoError, <<>>,
                            NoExisting, <<>>, body, snap[r], snap[r][idx[r]])
    /\ disk' \in AfterFailedWrite(disk)
    /\ Answer(r)
    /\ pc' = [pc EXCEPT ![r] = "done"]
    /\ snap' = [snap EXCEPT ![r] = <<>>]
    /\ idx' = [idx EXCEPT ![r] = 0]
    /\ UNCHANGED <<clock, issued, born, lastWrite>>
    /\ UNCHANGED <<store, ui>>

\* DELETE: writeVault(vault) at line 207 throws: no try is around it, the
\* async handler rejects and nothing is sent on res
DeleteWriteFails(r, secretId) ==
    /\ Arrives(r)
    /\ LET rd == ReadVault(disk)
       IN  /\ FindIndex(rd.vault, secretId) # 0
           /\ disk' \in AfterFailedWrite(rd.file)
           /\ last' = Response(r, "delete", secretId, 0, IoError, <<>>,
                                NoExisting, <<>>, EmptyBody, rd.vault,
                                rd.vault[FindIndex(rd.vault, secretId)])
    /\ pc' = [pc EXCEPT ![r] = "dead"]
    /\ UNCHANGED <<clock, issued, snap, idx, resp, born, lastWrite>>
    /\ UNCHANGED <<store, ui>>

NextIO ==
    \/ NextSerial
    \/ \E r \in Req : Alone(r) /\ ReadFails(r)
    \/ \E r \in Req : Alone(r) /\ PostWriteFails(r)
    \/ \E r \in Req : Alone(r) /\ PutWriteFails(r)
    \/ \E r \in Req, secretId \in Targets : Alone(r) /\ DeleteWriteFails(r, secretId)

SpecIO == InitSeeded /\ [][NextIO]_vars

(* ------------------- readVault and writeVault alone ------------------- *)
\* the longest vault a file holds
MaxStored == 2

\* records of a file: left by the server, or edited by hand
StoredRecords ==
    {Seed1, Seed2, [Seed1 EXCEPT !.details = Null],
     [Seed2 EXCEPT !.name = Undefined], [Seed2 EXCEPT !.id = 1]}

\* the sequences of at most n elements of S
SeqsUpTo(S, n) == UNION {[1..k -> S] : k \in 0..n}

\* the files readVault may find
Files ==
    {[kind |-> "json", secrets |-> q] : q \in SeqsUpTo(StoredRecords, MaxStored)}
    \cup {MissingFile, GarbageFile, OtherFile}

InitStore ==
    /\ disk \in Files
    /\ store = [StoreIdle EXCEPT !.phase = "start"]
    /\ clock = 1
    /\ issued = {}
    /\ pc = [r \in Req |-> "new"]
    /\ snap = [r \in Req |-> <<>>]
    /\ idx = [r \in Req |-> 0]
    /\ last = [req |-> 0, op |-> "none", target |-> NoId, status |-> 0,
               message |-> "", errors |-> <<>>, rec |-> NoExisting,
               list |-> <<>>, body |-> EmptyBody, snap |-> <<>>,
               existing |-> NoExisting, pre |-> EmptyVault, prior |-> {},
               now |-> 1]
    /\ resp = [r \in Req |-> NoAnswer]
    /\ born = [i \in Ids |-> NoTime]
    /\ lastWrite = [op |-> "none", rec |-> NoExisting]
    /\ ui = UiIdle

\* load(): readVault() on the file as it is, at the start or after a save
StoreLoad ==
    /\ store.phase \in {"start", "saved"}
    /\ disk' = ReadVault(disk).file
    /\ store' = [store EXCEPT
                    !.phase = IF store.phase = "start" THEN "loaded" ELSE "reloaded",
                    !.read = disk,
                    !.doc = ReadVault(disk).doc]
    /\ UNCHANGED <<clock, issued, pc, snap, idx, last, resp, born, lastWrite, ui>>

\* save(vault): writeVault of the value load() returned
StoreSave ==
    /\ store.phase = "loaded"
    /\ disk' = WriteDoc(store.doc)
    /\ store' = [store EXCEPT !.phase = "saved", !.saved = store.doc]
    /\ UNCHANGED <<clock, issued, pc, snap, idx, last, resp, born, lastWrite, ui>>

NextStore == StoreLoad \/ StoreSave

SpecStore == InitStore /\ [][NextStore]_vars

(* ------------------------- the form of the page ----------------------- *)
\* the types of the secrets shown, two of the keys of EMPTY_DETAILS
UiTypes == {"credential", "misc"}

\* form.details: the fields of which type it has (none: {}), whether one of
\* them is filled in, and its notes
NoDetails == [shape |-> "none", filled |-> FALSE, notes |-> ""]
UiNotes == {"", "n"}

\* { ...EMPTY_DETAILS[type](), notes: form.details.notes || '' }
EmptyDetailsOf(type, details) ==
    [shape |-> type, filled |-> FALSE, notes |-> details.notes]

\* secrets.value: the records the page lists
UiSecrets ==
    {[id |-> i, type |-> t, name |-> "A",
      details |-> [shape |-> t, filled |-> f, notes |-> n]] :
        i \in Ids, t \in UiTypes, f \in BOOLEAN, n \in UiNotes}

NoSecret == [id |-> NoId, type |-> "", name |-> "", details |-> NoDetails]
NoFetch ==
    [method |-> "none", id |-> NoId, type |-> "", name |-> "",
     details |-> NoDetails, unchanged |-> FALSE, edit |-> NoSecret]

\* defaultForm(), the value of form.type the watcher saw last, the secret
\* under edit since prepareEdit, whether the user changed the form since
\* then, and the last fetch of handleSubmit
UiOpen ==
    [phase |-> "open", id |-> NoId, type |-> "", name |-> "",
     details |-> NoDetails, watched |-> "", touched |-> FALSE,
     edit |-> NoSecret, sent |-> NoFetch]

InitForm ==
    /\ ui = UiOpen
    /\ disk = EmptyVault
    /\ clock = 1
    /\ issued = {}
    /\ pc = [r \in Req |-> "new"]
    /\ snap = [r \in Req |-> <<>>]
    /\ idx = [r \in Req |-> 0]
    /\ last = [req |-> 0, op |-> "none", target |-> NoId, status |-> 0,
               message |-> "", errors |-> <<>>, rec |-> NoExisting,
               list |-> <<>>, body |-> EmptyBody, snap |-> <<>>,
               existing |-> NoExisting, pre |-> EmptyVault, prior |-> {},
               now |-> 1]
    /\ resp = [r \in Req |-> NoAnswer]
    /\ born = [i \in Ids |-> NoTime]
    /\ lastWrite = [op |-> "none", rec |-> NoExisting]
    /\ store = StoreIdle

\* the watcher's job is not queued: an event handler of the page runs only
\* after the jobs queued by the handler before it have run
Flushed == ui.type = ui.watched

\* resetForm()
ResetFields(form) ==
    [form EXCEPT !.id = NoId, !.type = "", !.name = "", !.details = NoDetails,
                 !.touched = FALSE, !.edit = NoSecret]

\* the callback of watch(() => form.type, ...), run when form.type is not
\* the value the watcher saw last
WatcherRun ==
    /\ ui.type # ui.watched
    /\ ui' = [ui EXCEPT
                !.details = IF ui.type \in UiTypes
                            THEN EmptyDetailsOf(ui.type, ui.details)
                            ELSE NoDetails,
                !.watched = ui.type]
    /\ UNCHANGED <<disk, clock, issued, pc, snap, idx, last, resp, born, lastWrite, store>>

\* prepareEdit(secret); JSON.parse(JSON.stringify(details)) is a copy
PrepareEdit(secret) ==
    /\ Flushed
    /\ ui' = [ui EXCEPT !.id = secret.id, !.type = secret.type,
                        !.name = secret.name, !.details = secret.details,
                        !.touched = FALSE, !.edit = secret]
    /\ UNCHANGED <<disk, clock, issued, pc, snap, idx, last, resp, born, lastWrite, store>>

\* the user picks a type in the form (v-model on form.type)
SelectType(type) ==
    /\ Flushed
    /\ ui' = [ui EXCEPT !.type = type, !.touched = TRUE]
    /\ UNCHANGED <<disk, clock, issued, pc, snap, idx, last, resp, born, lastWrite, store>>

\* the user types a name
TypeName ==
    /\ Flushed
    /\ ui' = [ui EXCEPT !.name = "N", !.touched = TRUE]
    /\ UNCHANGED <<disk, clock, issued, pc, snap, idx, last, resp, born, lastWrite, store>>

\* the user fills in a field of the details and the notes
EditDetails(notes) ==
    /\ Flushed
    /\ ui.details.shape # "none"
    /\ ui' = [ui EXCEPT !.details = [@ EXCEPT !.filled = TRUE, !.notes = notes],
                        !.touched = TRUE]
    /\ UNCHANGED <<disk, clock, issued, pc, snap, idx, last, resp, born, lastWrite, store>>

\* handleSubmit(): the fetch it sends and, when the response is ok,
\* resetForm()
HandleSubmit(ok) ==
    /\ Flushed
    /\ ui.type # ""
    /\ ui.name # ""
    /\ LET fetch == [method |-> IF ui.id # NoId THEN "PUT" ELSE "POST",
                     id |-> ui.id, type |-> ui.type, name |-> ui.name,
                     details |-> ui.details,
                     unchanged |-> (ui.edit # NoSecret /\ ~ui.touched),
                     edit |-> ui.edit]
       IN  ui' = IF ok THEN [ResetFields(ui) EXCEPT !.sent = fetch]
                 ELSE [ui EXCEPT !.sent = fetch]
    /\ UNCHANGED <<disk, clock, issued, pc, snap, idx, last, resp, born, lastWrite, store>>

\* resetForm(), from the form's cancel button
ResetForm ==
    /\ Flushed
    /\ ui' = ResetFields(ui)
    /\ UNCHANGED <<disk, clock, issued, pc, snap, idx, last, resp, born, lastWrite, store>>

NextForm ==
    \/ WatcherRun
    \/ \E secret \in UiSecrets : PrepareEdit(secret)
    \/ \E type \in UiTypes : SelectType(type)
    \/ TypeName
    \/ \E notes \in UiNotes : EditDetails(notes)
    \/ \E ok \in BOOLEAN : HandleSubmit(ok)
    \/ ResetForm

SpecForm == InitForm /\ [][NextForm]_vars

(* ----------------------------- claims --------------------------------- *)
\* the response sent last is the success of a create or an update
Wrote(op) == last.op = op /\ last.status \in {200, 201}
Fields == {"type", "name", "details"}

\* C1: the ids of the persisted vault are pairwise distinct, whatever the
\* interleaving of the requests, and the id a successful create returns is
\* the id of no record created before it
C1_UniqueIds ==
    /\ \A i, j \in 1..Len(disk.secrets) :
            i # j => disk.secrets[i].id # disk.secrets[j].id
    /\ Wrote("create") => last.rec.id \notin last.prior

\* a create has answered with a second record while another one is stored
C1_Witness ==
    /\ Wrote("create")
    /\ last.prior # {}
    /\ Cardinality(IdsOf(disk.secrets)) = 2

\* C2: a create or update writes its own snapshot with its change: a record
\* another request persisted after that snapshot was taken is absent from
\* the file afterwards, and the overwriting request is answered with success
C2_SecondWriterWins ==
    (last.op \in {"create", "update"} /\ disk # last.pre) =>
        /\ last.status \in {200, 201}
        /\ \A rec \in Range(last.pre.secrets) \ Range(last.snap) :
                rec # last.rec => rec \notin Range(disk.secrets)

\* two overlapping requests were both answered with success and the record
\* the first one was answered with, persisted before, is gone from the file
C2_Witness ==
    \E r1, r2 \in Req :
        /\ r1 # r2
        /\ last.req = r2
        /\ last.op \in {"create", "update"}
        /\ resp[r1].status \in {200, 201}
        /\ resp[r2].status \in {200, 201}
        /\ resp[r1].rec \in Range(last.pre.secrets) \ Range(last.snap)
        /\ resp[r1].rec.id \notin IdsOf(disk.secrets)

\* C3: after a successful update each of type, name and details the payload
\* omits has, in the record returned and persisted, the value of the stored
\* record the update read
C3_MergePreservesAbsent ==
    Wrote("update") =>
        LET i == FindIndex(last.snap, last.target)
        IN  /\ i # 0
            /\ \A f \in Fields :
                    last.body[f] = Undefined => last.rec[f] = last.snap[i][f]
            /\ i <= Len(disk.secrets)
            /\ disk.secrets[i] = last.rec

\* an update that changed the name and omitted type and details
C3_Witness ==
    /\ Wrote("update")
    /\ last.body.type = Undefined
    /\ last.body.details = Undefined
    /\ last.body.name # Undefined
    /\ last.rec.name # last.existing.name
    /\ last.rec.type = Str("credential")

\* C4: after a successful update each of type, name and details present in
\* the payload has the payload's value, id and createdAt are those of the
\* record updated, and every stored record has the createdAt of its creation
C4_MergeOverwritesPresent ==
    /\ Wrote("update") =>
        /\ \A f \in Fields :
                last.body[f] # Undefined => last.rec[f] = last.body[f]
        /\ last.rec.id = last.target
        /\ last.rec.id = last.existing.id
        /\ last.rec.createdAt = last.existing.createdAt
    /\ \A i \in 1..Len(disk.secrets) :
        /\ disk.secrets[i].id \in issued
        /\ disk.secrets[i].createdAt = born[disk.secrets[i].id]

\* an update whose payload carries id and createdAt, later than the creation
C4_Witness ==
    /\ Wrote("update")
    /\ last.body.id = Forged
    /\ last.body.createdAt = Forged
    /\ last.body.name # Undefined
    /\ last.rec.createdAt < last.now

\* C5: an update or delete of an id no record of the vault read has is
\* answered 404 Not found and leaves the file as it was
C5_NotFound ==
    (last.op \in {"update", "delete"} /\ last.target \notin IdsOf(last.snap)) =>
        /\ last.status = 404
        /\ last.message = "Not found"
        /\ disk = last.pre

\* a delete of an unknown id was answered while the vault held a record
C5_Witness ==
    /\ last.op = "delete"
    /\ last.target \notin IdsOf(last.snap)
    /\ last.pre.secrets # <<>>

\* the three rules of a payload as the specification words them
IsAllowedType(x) == x \in {Str(t) : t \in ALLOWED_TYPES}
IsNonEmptyText(x) == x.t = "string" /\ x.v # ""
IsMapping(x) == x.t = "object"

\* the errors of the rules a payload violates, in the order type, name,
\* details; on update a rule applies to a field present only
Violations(body, isUpdate) ==
    (IF (~isUpdate \/ body.type # Undefined) /\ ~IsAllowedType(body.type)
        THEN <<TypeError>> ELSE <<>>)
    \o (IF (~isUpdate \/ body.name # Undefined) /\ ~IsNonEmptyText(body.name)
         THEN <<NameError>> ELSE <<>>)
    \o (IF (~isUpdate \/ body.details # Undefined) /\ ~IsMapping(body.details)
         THEN <<DetailsError>> ELSE <<>>)

\* C6: a create is accepted only if type is one of the four types, name is
\* non-empty text and details is a mapping; a payload that breaks a rule is
\* answered 400 with the errors of all the rules it breaks, in the order
\* type, name, details; a create not accepted creates no record and leaves
\* the file as it was
C6_CreateValidation ==
    last.op = "create" =>
        /\ last.status = 201 =>
            /\ last.body.kind = "object"
            /\ IsAllowedType(last.body.type)
            /\ IsNonEmptyText(last.body.name)
            /\ IsMapping(last.body.details)
        /\ (last.body.kind = "object" /\ Violations(last.body, FALSE) # <<>>) =>
            /\ last.status = 400
            /\ last.message = "Validation failed"
            /\ last.errors = Violations(last.body, FALSE)
        /\ last.status # 201 =>
            /\ last.rec = NoExisting
            /\ disk = last.pre
            /\ issued = last.prior

\* a create whose payload breaks the name and the details rule was answered
\* while the vault held a record
C6_Witness ==
    /\ last.op = "create"
    /\ last.errors = <<NameError, DetailsError>>
    /\ last.pre.secrets # <<>>

\* C7: on update a rule applies to a field present in the payload only: a
\* payload without type, name and details is accepted, and one with a field
\* present and invalid is answered 400 with the errors and leaves the file,
\* and so the stored record, as it was
C7_UpdateValidation ==
    (last.op = "update" /\ last.status # 404 /\ last.body.kind = "object") =>
        /\ last.status = 200 <=> Violations(last.body, TRUE) = <<>>
        /\ Violations(last.body, TRUE) # <<>> =>
            /\ last.status = 400
            /\ last.errors = Violations(last.body, TRUE)
            /\ disk = last.pre
            /\ last.existing \in Range(last.snap)

\* an update whose payload has none of type, name and details was accepted
C7_Witness ==
    /\ Wrote("update")
    /\ \A f \in Fields : last.body[f] = Undefined
    /\ last.body.id = Undefined

\* C8 as stated: the updatedAt of the record a successful update returns is
\* strictly later than the updatedAt the record had
C8_StrictlyLater ==
    Wrote("update") =>
        /\ last.rec.updatedAt > last.existing.updatedAt
        /\ \A rec \in Range(last.pre.secrets) :
                rec.id = last.rec.id => last.rec.updatedAt > rec.updatedAt

\* C8 amended: every successful update, one with an empty payload included,
\* sets updatedAt to the clock reading of the update, which is not earlier
\* than the updatedAt the record had (the clock does not run backwards)
C8_Refreshed ==
    Wrote("update") =>
        /\ last.rec.updatedAt = last.now
        /\ last.rec.updatedAt >= last.existing.updatedAt
        /\ \A rec \in Range(last.pre.secrets) :
                rec.id = last.rec.id => last.rec.updatedAt >= rec.updatedAt

\* an update in a later millisecond than the one that stamped the record
C8_Witness ==
    /\ Wrote("update")
    /\ last.existing.updatedAt < last.now
    /\ last.rec.updatedAt = last.now

\* C9: a successful create returns a record with createdAt = updatedAt and
\* the payload's type, name and details, and the file it writes is the
\* vault it read with this record appended
C9_Create ==
    Wrote("create") =>
        /\ last.status = 201
        /\ last.rec.createdAt = last.rec.updatedAt
        /\ \A f \in Fields : last.rec[f] = last.body[f]
        /\ disk = [kind |-> "json", secrets |-> Append(last.snap, last.rec)]

\* a create answered with its record after reading a vault that held one
C9_Witness ==
    /\ Wrote("create")
    /\ Len(last.snap) = 1
    /\ last.rec \notin Range(last.snap)

\* the vault a request that starts in this step reads
VaultRead(r) == IF pc'[r] = "done" THEN last'.snap ELSE snap'[r]

ListResult(d) == ReadVault(d).vault

\* the ids a delete was answered 200 for
Deleted == {resp[r].rec.id : r \in {q \in Req : resp[q].op = "delete"}}

\* C11 as stated: once a delete of an id has succeeded, no list handled
\* afterwards returns a record with that id
C11_NeverListedAgain ==
    \A id \in Deleted : id \notin IdsOf(ListResult(disk))

\* C11 amended: after the delete of an id no list returns a record with it,
\* until a create or update that read the vault before the delete, and was
\* suspended in readRequestBody since, writes its snapshot back
C11_AbsentUntilStaleWrite ==
    [][\A id \in Ids :
        (id \in Deleted' /\ id \in IdsOf(ListResult(disk'))) =>
            \/ id \in Deleted /\ id \in IdsOf(ListResult(disk))
            \/ \E r \in Req :
                /\ pc[r] \in {"post", "put"}
                /\ pc'[r] = "done"
                /\ id \in IdsOf(snap[r])]_vars

\* a record is deleted, answered 200, and no suspended handler holds it
C11_Witness ==
    /\ Wrote("delete")
    /\ last.target \in Deleted
    /\ last.target \notin IdsOf(ListResult(disk))
    /\ \A r \in Req : last.target \notin IdsOf(snap[r])

\* C12 as stated: after a load the file is a vault document; a file that
\* was missing, or present and not a vault document, is now the empty vault
\* and the empty vault was returned
C12_AlwaysVaultDocument ==
    store.phase \in {"loaded", "reloaded"} =>
        /\ disk.kind = "json"
        /\ store.read.kind # "json" => (disk = EmptyVault /\ store.doc = EmptyVault)

\* C12 amended: a load creates a missing file as the empty vault and resets
\* a file JSON.parse rejects to the empty vault, returning the empty vault;
\* a file that parses is returned as parsed and left as it is, whatever its
\* shape; so after a load the file is one JSON document
C12_ResetOnParseError ==
    store.phase \in {"loaded", "reloaded"} =>
        /\ disk.kind \in {"json", "other"}
        /\ store.read.kind \in {"missing", "garbage"} =>
                (disk = EmptyVault /\ store.doc = EmptyVault)
        /\ store.read.kind \in {"json", "other"} =>
                (disk = store.read /\ store.doc = store.read)

\* a load found no file and left the empty vault
C12_Witness ==
    /\ store.phase = "loaded"
    /\ store.read = MissingFile
    /\ disk = EmptyVault

\* C13 as stated: a handler whose read or write of the file failed has sent
\* a failure response (none ends without a response), and the file is as it
\* was before the operation
C13_FailureAnswered ==
    /\ \A r \in Req : pc[r] # "dead"
    /\ last.message = IoError => (last.status >= 400 /\ disk = last.pre)

\* C13, what the code gives: a failed write of a create or an update is
\* answered with 400
C13_CaughtWriteAnswered ==
    (last.message = IoError /\ last.op \in {"create", "update"}) =>
        (last.status = 400 /\ pc[last.req] = "done" /\ resp[last.req].status = 400)

\* s without its element at position i, the others in their order
Without(s, i) == [j \in 1..(Len(s) - 1) |-> IF j < i THEN s[j] ELSE s[j + 1]]

\* C14: a list returns the records of the file, all of them and in the
\* file's order; a create writes the records it read followed by the new
\* one; an update writes the same ids at the same positions, the updated
\* record where the old one was; a delete writes the records it read less
\* the deleted one, the others in their order
C14_StoredOrder ==
    /\ last.op = "list" => last.list = last.pre.secrets
    /\ Wrote("create") => disk.secrets = Append(last.snap, last.rec)
    /\ Wrote("update") =>
            /\ Len(disk.secrets) = Len(last.snap)
            /\ \A i \in 1..Len(disk.secrets) :
                    /\ disk.secrets[i].id = last.snap[i].id
                    /\ disk.secrets[i].id = last.target => disk.secrets[i] = last.rec
    /\ Wrote("delete") =>
            \E i \in 1..Len(last.pre.secrets) :
                /\ last.pre.secrets[i].id = last.target
                /\ disk.secrets = Without(last.pre.secrets, i)

\* the first of three records was deleted, the two others are left
C14_Witness ==
    /\ Wrote("delete")
    /\ Len(last.pre.secrets) = 3
    /\ last.target = last.pre.secrets[1].id
    /\ disk.secrets = <<last.pre.secrets[2], last.pre.secrets[3]>>

\* C16: an update waits for its body only when the vault it read has the
\* id; an update of an id the vault does not have is answered 404 in the
\* step that read the vault, no body read and no error list; an update
\* answered with validation errors (or 200) had its id in the vault it read
C16_NotFoundFirst ==
    /\ \A r \in Req : pc[r] = "put" => idx[r] \in 1..Len(snap[r])
    /\ last.op = "update" =>
            /\ last.status \in {200, 400, 404}
            /\ last.status = 404 <=> last.target \notin IdsOf(last.snap)
            /\ last.status = 404 =>
                    /\ last.body = EmptyBody
                    /\ last.errors = <<>>
                    /\ last.snap = last.pre.secrets

\* an update of an id the vault does not have was answered 404 although the
\* vault has records
C16_Witness ==
    /\ last.op = "update"
    /\ last.status = 404
    /\ last.snap # <<>>
    /\ last.target \notin IdsOf(last.snap)

\* C17: a request the server received is answered, in the step that
\* received it or, for a create or an update, once its body has arrived
\* (no request waits for ever between its first step and its response);
\* a response once sent is never replaced by another; and after a 400 or a
\* 404 the server still answers the next request that arrives
C17_AnsweredOnce ==
    /\ [](\A r \in Req : pc[r] = "done" <=> resp[r].status # 0)
    /\ [](\A r \in Req : pc[r] \in {"new", "post", "put", "done"})
    /\ \A r \in Req : []<>(pc[r] \notin {"post", "put"})
    /\ [][\A r \in Req : resp[r].status # 0 => resp'[r] = resp[r]]_vars
    /\ [](last.status \in {400, 404} =>
            \A r \in Req : (pc[r] = "new" /\ \A q \in Req : q < r => pc[q] # "new")
                                => ENABLED List(r))

\* the first request was answered 400 and the second was served after it
C17_Witness ==
    /\ resp[1].status = 400
    /\ last.req = 2
    /\ resp[2].status \in {200, 201}

\* the vault request r read when it arrived, or reads if it arrives now
SnapshotOf(r) == IF pc[r] \in {"post", "put"} THEN snap[r] ELSE ReadVault(disk).vault

\* C18: the step that ends a create writes the snapshot of that request
\* with the new record appended, the one that ends an update writes the
\* snapshot with the updated record in the place of the old one, a delete
\* writes the snapshot less the deleted record; in each case every other
\* record of the snapshot is written as it was read; a step that answers
\* 400 or 404, a list, and a step that sends no response, leave the file
C18_OneChange ==
    [][/\ \A r \in Req : (pc[r] # "done" /\ pc'[r] = "done") =>
            LET v == SnapshotOf(r)
                ok == last'.status \in {200, 201}
            IN  /\ last'.req = r
                /\ (ok /\ last'.op = "create") =>
                        disk' = [kind |-> "json", secrets |-> v \o <<last'.rec>>]
                /\ (ok /\ last'.op = "update") =>
                        \E i \in 1..Len(v) :
                            /\ v[i].id = last'.target
                            /\ disk' = [kind |-> "json",
                                        secrets |-> [j \in 1..Len(v) |->
                                                        IF j = i THEN last'.rec ELSE v[j]]]
                /\ (ok /\ last'.op = "delete") =>
                        \E i \in 1..Len(v) :
                            /\ v[i].id = last'.target
                            /\ disk' = [kind |-> "json", secrets |-> Without(v, i)]
                /\ (~ok \/ last'.op \in {"list", "other"}) => disk' = disk
       /\ (\A r \in Req : pc'[r] = "done" => pc[r] = "done") => disk' = disk]_vars

\* an update of one of two records wrote the other record as it was read
C18_Witness ==
    /\ Wrote("update")
    /\ Len(last.snap) = 2
    /\ last.rec # last.existing
    /\ \E i \in 1..2 :
        /\ last.snap[i].id # last.target
        /\ Len(disk.secrets) = 2
        /\ disk.secrets[i] = last.snap[i]

\* C19: a list and a delete are answered in the step in which the request
\* arrives, on the vault as the file holds it in that step, and a delete
\* writes back every record of the file but the deleted one; a request
\* that answers on a vault other than the file's is a create or an update
\* that waited for its body
C19_DeleteNotStale ==
    [][\A r \in Req : (pc[r] # "done" /\ pc'[r] = "done") =>
        /\ last'.op \in {"list", "delete"} =>
                (pc[r] = "new" /\ last'.snap = disk.secrets)
        /\ (last'.op = "delete" /\ last'.status = 200) =>
                \A i \in 1..Len(disk.secrets) :
                    disk.secrets[i].id # last'.target =>
                        disk.secrets[i] \in Range(disk'.secrets)
        /\ last'.snap # disk.secrets =>
                (last'.op \in {"create", "update"} /\ pc[r] \in {"post", "put"})]_vars

\* a delete left in the file a record that another request had written
C19_Witness ==
    /\ Wrote("delete")
    /\ last.req = 2
    /\ resp[1].op \in {"create", "update"}
    /\ resp[1].rec \in Range(disk.secrets)
    /\ resp[1].rec \notin {Seed1, Seed2}

C20_EditKeepsDetails ==
    /\ (ui.edit # NoSecret /\ ~ui.touched /\ Flushed) =>
            /\ ui.id = ui.edit.id
            /\ ui.type = ui.edit.type
            /\ ui.name = ui.edit.name
            /\ ui.details = ui.edit.details
    /\ ui.sent.unchanged =>
            /\ ui.sent.method = "PUT"
            /\ ui.sent.id = ui.sent.edit.id
            /\ ui.sent.details = ui.sent.edit.details

\* C20, what the code gives: the unchanged form is sent as a PUT for the
\* secret's id with its type and name; its details are the secret's, or the
\* empty fields of the secret's type with the secret's notes
C20_EditKeepsNotes ==
    ui.sent.unchanged =>
        /\ ui.sent.method = "PUT"
        /\ ui.sent.id = ui.sent.edit.id
        /\ ui.sent.type = ui.sent.edit.type
        /\ ui.sent.name = ui.sent.edit.name
        /\ ui.sent.details \in
                {ui.sent.edit.details,
                 EmptyDetailsOf(ui.sent.edit.type, ui.sent.edit.details)}

====
